---- MODULE Spec2Model ----
(***************************************************************************)
(* Wi-Fi provisioning over HTTP (web_server.c): the resource handler       *)
(* softap_resource_handler, the credential extractor                       *)
(* wifi_extract_credentials, the decoder url_decode and the connection     *)
(* loop start_sta_mode, as one state machine.  One handler invocation runs *)
(* at a time; each step of the invocation is one action, and every call    *)
(* the handler makes to the HTTP transport or to the Wi-Fi connection      *)
(* manager is appended to `trace`.                                         *)
(***************************************************************************)
EXTENDS Integers, Sequences, FiniteSets, TLC

\* ------------------------------------------------------------------------
\* Sizes.  web_server.h, which sets them, is not among the sources: the arrays
\* are scaled down and the retry count is a small positive number.
\* ------------------------------------------------------------------------
WIFI_SSID_LEN == 4
WIFI_PWD_LEN == 4
BUFFER_LENGTH == 20
MAX_WIFI_RETRY_COUNT == 3
WIFI_CONNECT_RESPONSE_LENGTH == 8

\* Longest source string handed to url_decode on its own.
MaxDecodeLen == 4

\* ASCII values used by the decoder and the extractor.
NULL_CHARACTER_ASCII_VALUE == 0
SPACE_CHARACTER_ASCII_VALUE == 32
MODUS_OPERATOR_ASCII_VALUE == 37
AMPERSAND_OPERATOR_ASCII_VALUE == 38
PLUS_OPERATOR_ASCII_VALUE == 43
NUMBER_ZERO_ASCII_VALUE == 48
EQUALS_OPERATOR_ASCII_VALUE == 61
CAPITAL_LETTER_A_ASCII_VALUE == 65
SMALL_LETTER_A_ASCII_VALUE == 97
VALID_CHARACTER_ASCII_VALUE == 128
LF_OPERATOR_ASCII_VALUE == 10
DLE_OPERATOR_ASCII_VALUE == 16
URL_DECODE_ASCII_OFFSET_VALUE == 3

\* "SSID", the key strncmp looks for at the start of the decoded body.
SSID_KEY == <<83, 83, 73, 68>>

\* "PASS"
PASS_KEY == <<80, 65, 83, 83>>

VARIABLES
    device_configured,  \* volatile bool device_configured
    wifi_ssid,          \* uint8_t wifi_ssid[WIFI_SSID_LEN]
    wifi_pwd,           \* uint8_t wifi_pwd[WIFI_PWD_LEN]
    buffer,             \* char buffer[BUFFER_LENGTH]
    associated,         \* the STA interface holds an association (cy_wcm)
    pc,                 \* position of the handler invocation
    request,            \* the cy_http_message_body_t of the invocation
    result,             \* cy_rslt_t result of the handler / extractor
    status,             \* int32_t status returned to the transport
    sta_result,         \* cy_rslt_t result inside start_sta_mode
    conn_retries,       \* loop counter of start_sta_mode
    connect_param,      \* credentials copied by start_sta_mode
    trace,              \* calls made by the current invocation, in order
    fault,              \* out-of-bounds access made by the current invocation
    copied,             \* buffer positions the current invocation copied into
                        \* wifi_ssid and wifi_pwd
    stateAtEntry,       \* globals as they were when the invocation began
    everJoined,         \* an earlier start_sta_mode returned success
    everFailed,         \* an earlier start_sta_mode exhausted its retries
    http_wifi_connect_response
                        \* static char http_wifi_connect_response[WIFI_CONNECT_RESPONSE_LENGTH]

vars == <<device_configured, wifi_ssid, wifi_pwd, buffer, associated, pc,
          request, result, status, sta_result, conn_retries, connect_param,
          trace, fault, copied, stateAtEntry, everJoined, everFailed,
          http_wifi_connect_response>>

\* ------------------------------------------------------------------------
\* url_decode
\* ------------------------------------------------------------------------
Zeros(n) == [i \in 1..n |-> NULL_CHARACTER_ASCII_VALUE]

\* isxdigit of <ctype.h>
isxdigit(c) == c \in (48..57) \cup (65..70) \cup (97..102)

\* HexDigitValue without the folding of lower case letters.
HexDigitValue_NoFold(c) ==
    IF c >= CAPITAL_LETTER_A_ASCII_VALUE
    THEN c - (CAPITAL_LETTER_A_ASCII_VALUE - LF_OPERATOR_ASCII_VALUE)
    ELSE c - NUMBER_ZERO_ASCII_VALUE

\* The value url_decode computes for one hex digit: lower case is folded to
\* upper case, a letter is reduced by 'A' - 10, a digit by '0'.
HexDigitValue(c) ==
    LET folded == IF c >= SMALL_LETTER_A_ASCII_VALUE
                  THEN c - (SMALL_LETTER_A_ASCII_VALUE - CAPITAL_LETTER_A_ASCII_VALUE)
                  ELSE c
    IN  IF folded >= CAPITAL_LETTER_A_ASCII_VALUE
        THEN folded - (CAPITAL_LETTER_A_ASCII_VALUE - LF_OPERATOR_ASCII_VALUE)
        ELSE folded - NUMBER_ZERO_ASCII_VALUE

\* DecodeFrom whose last branch advances src without storing the byte.
RECURSIVE DecodeFrom_DropsPlain(_, _, _)
DecodeFrom_DropsPlain(src, i, out) ==
    IF src[i] = NULL_CHARACTER_ASCII_VALUE \/ src[i] >= VALID_CHARACTER_ASCII_VALUE
    THEN out
    ELSE IF /\ src[i] = MODUS_OPERATOR_ASCII_VALUE
            /\ src[i + 1] # NULL_CHARACTER_ASCII_VALUE
            /\ src[i + 2] # NULL_CHARACTER_ASCII_VALUE
            /\ isxdigit(src[i + 1])
            /\ isxdigit(src[i + 2])
         THEN DecodeFrom_DropsPlain(src, i + URL_DECODE_ASCII_OFFSET_VALUE,
                         Append(out, (DLE_OPERATOR_ASCII_VALUE * HexDigitValue(src[i + 1])
                                      + HexDigitValue(src[i + 2])) % 256))
         ELSE IF src[i] = PLUS_OPERATOR_ASCII_VALUE
              THEN DecodeFrom_DropsPlain(src, i + 1, Append(out, SPACE_CHARACTER_ASCII_VALUE))
              ELSE DecodeFrom_DropsPlain(src, i + 1, out)

\* DecodeFrom whose loop condition tests only for the zero byte.
RECURSIVE DecodeFrom_NoThreshold(_, _, _)
DecodeFrom_NoThreshold(src, i, out) ==
    IF src[i] = NULL_CHARACTER_ASCII_VALUE
    THEN out
    ELSE IF /\ src[i] = MODUS_OPERATOR_ASCII_VALUE
            /\ src[i + 1] # NULL_CHARACTER_ASCII_VALUE
            /\ src[i + 2] # NULL_CHARACTER_ASCII_VALUE
            /\ isxdigit(src[i + 1])
            /\ isxdigit(src[i + 2])
         THEN DecodeFrom_NoThreshold(src, i + URL_DECODE_ASCII_OFFSET_VALUE,
                         Append(out, (DLE_OPERATOR_ASCII_VALUE * HexDigitValue(src[i + 1])
                                      + HexDigitValue(src[i + 2])) % 256))
         ELSE IF src[i] = PLUS_OPERATOR_ASCII_VALUE
              THEN DecodeFrom_NoThreshold(src, i + 1, Append(out, SPACE_CHARACTER_ASCII_VALUE))
              ELSE DecodeFrom_NoThreshold(src, i + 1, Append(out, src[i]))

\* DecodeFrom that takes any two non-zero bytes after '%' for an escape.
RECURSIVE DecodeFrom_NoDigitCheck(_, _, _)
DecodeFrom_NoDigitCheck(src, i, out) ==
    IF src[i] = NULL_CHARACTER_ASCII_VALUE \/ src[i] >= VALID_CHARACTER_ASCII_VALUE
    THEN out
    ELSE IF /\ src[i] = MODUS_OPERATOR_ASCII_VALUE
            /\ src[i + 1] # NULL_CHARACTER_ASCII_VALUE
            /\ src[i + 2] # NULL_CHARACTER_ASCII_VALUE
         THEN DecodeFrom_NoDigitCheck(src, i + URL_DECODE_ASCII_OFFSET_VALUE,
                         Append(out, (DLE_OPERATOR_ASCII_VALUE * HexDigitValue(src[i + 1])
                                      + HexDigitValue(src[i + 2])) % 256))
         ELSE IF src[i] = PLUS_OPERATOR_ASCII_VALUE
              THEN DecodeFrom_NoDigitCheck(src, i + 1, Append(out, SPACE_CHARACTER_ASCII_VALUE))
              ELSE DecodeFrom_NoDigitCheck(src, i + 1, Append(out, src[i]))

\* The loop of url_decode from source position i (1-based) with the bytes
\* written so far in out.  src is the memory at the data pointer; the scan
\* ends at a zero byte or at a byte at or above VALID_CHARACTER_ASCII_VALUE.
RECURSIVE DecodeFrom(_, _, _)
DecodeFrom(src, i, out) ==
    IF src[i] = NULL_CHARACTER_ASCII_VALUE \/ src[i] >= VALID_CHARACTER_ASCII_VALUE
    THEN out
    ELSE IF /\ src[i] = MODUS_OPERATOR_ASCII_VALUE
            /\ src[i + 1] # NULL_CHARACTER_ASCII_VALUE
            /\ src[i + 2] # NULL_CHARACTER_ASCII_VALUE
            /\ isxdigit(src[i + 1])
            /\ isxdigit(src[i + 2])
         THEN DecodeFrom(src, i + URL_DECODE_ASCII_OFFSET_VALUE,
                         Append(out, (DLE_OPERATOR_ASCII_VALUE * HexDigitValue(src[i + 1])
                                      + HexDigitValue(src[i + 2])) % 256))
         ELSE IF src[i] = PLUS_OPERATOR_ASCII_VALUE
              THEN DecodeFrom(src, i + 1, Append(out, SPACE_CHARACTER_ASCII_VALUE))
              ELSE DecodeFrom(src, i + 1, Append(out, src[i]))

\* The bytes url_decode stores through dst, terminator included.
url_decode(src) == Append(DecodeFrom(src, 1, <<>>), NULL_CHARACTER_ASCII_VALUE)

\* The positions of src (1-based) url_decode reads from position i on: the
\* loop condition reads src[i]; after a '%' the test of line 473 reads the
\* next byte and, when that one is not zero, the byte after it.
RECURSIVE ReadsFrom(_, _, _)
ReadsFrom(src, i, acc) ==
    IF src[i] = NULL_CHARACTER_ASCII_VALUE \/ src[i] >= VALID_CHARACTER_ASCII_VALUE
    THEN acc \cup {i}
    ELSE IF src[i] = MODUS_OPERATOR_ASCII_VALUE
         THEN LET looked == IF src[i + 1] # NULL_CHARACTER_ASCII_VALUE
                            THEN {i, i + 1, i + 2} ELSE {i, i + 1}
              IN  IF /\ src[i + 1] # NULL_CHARACTER_ASCII_VALUE
                     /\ src[i + 2] # NULL_CHARACTER_ASCII_VALUE
                     /\ isxdigit(src[i + 1])
                     /\ isxdigit(src[i + 2])
                  THEN ReadsFrom(src, i + URL_DECODE_ASCII_OFFSET_VALUE, acc \cup looked)
                  ELSE ReadsFrom(src, i + 1, acc \cup looked)
         ELSE ReadsFrom(src, i + 1, acc \cup {i})

\* dst after the bytes `bytes` were stored from its first element on: the
\* part of them that fits, followed by what dst held before.
StoreInto(dst, bytes) ==
    [i \in 1..Len(dst) |-> IF i <= Len(bytes) THEN bytes[i] ELSE dst[i]]

\* ------------------------------------------------------------------------
\* wifi_extract_credentials, lines 235-259: the scans over buffer
\* ------------------------------------------------------------------------
Min(a, b) == IF a <= b THEN a ELSE b

\* Position (1-based) of the first ch in b at or after from; 0 when the scan
\* reaches the end of b without meeting it.
FirstAt(b, from, ch) ==
    LET hits == {i \in from..Len(b) : b[i] = ch}
    IN  IF hits = {} THEN 0 ELSE CHOOSE i \in hits : \A j \in hits : i <= j

Outcome(ssid, pwd, flt, hang) ==
    [wifi_ssid |-> ssid, wifi_pwd |-> pwd, fault |-> flt, hang |-> hang]

\* A while loop without a bound that walks off the end of buffer reads memory
\* the program does not own: it may never meet the byte it looks for (the
\* handler does not return), or meet it somewhere and go on.
ScanLeavesBuffer(ssid, pwd, flt) ==
    { Outcome(ssid, pwd, flt \cup {"read_past_buffer"}, h) : h \in BOOLEAN }

\* The positions of buffer b (1-based) the loops of lines 238-258 stop at and
\* copy from, data_len being the length of the encoded body: the first '=',
\* the '&' that ends the name, the second '=', the end of the secret.  A
\* position is 0 when its scan reaches the end of b without stopping; the
\* copied ranges are the part of them that lies in b.
ExtractSpans(b, data_len) ==
    LET eq1 == FirstAt(b, 1, EQUALS_OPERATOR_ASCII_VALUE)
        amp == IF eq1 = 0 THEN 0 ELSE FirstAt(b, eq1 + 1, AMPERSAND_OPERATOR_ASCII_VALUE)
        eq2 == IF amp = 0 THEN 0 ELSE FirstAt(b, amp + 1, EQUALS_OPERATOR_ASCII_VALUE)
        amp2 == IF eq2 = 0 THEN 0 ELSE FirstAt(b, eq2 + 1, AMPERSAND_OPERATOR_ASCII_VALUE)
        last == IF amp2 = 0 THEN data_len ELSE Min(data_len, amp2 - 1)
    IN  [eq1 |-> eq1, amp |-> amp, eq2 |-> eq2, last |-> last,
         name |-> IF eq1 = 0 THEN {}
                  ELSE (eq1 + 1)..(IF amp = 0 THEN Len(b) ELSE amp - 1),
         secret |-> IF eq2 = 0 THEN {} ELSE (eq2 + 1)..Min(last, Len(b))]

\* The bytes of b at the positions of the range r, in order.
BytesAt(b, r) ==
    IF r = {} THEN <<>>
    ELSE LET lo == CHOOSE i \in r : \A j \in r : i <= j
         IN  SubSeq(b, lo, lo + Cardinality(r) - 1)

\* The buffer positions copied into the two arrays: none when strncmp does
\* not find the key.
CopiedPositions(b, data_len) ==
    IF SubSeq(b, 1, 4) # SSID_KEY
    THEN [wifi_ssid |-> {}, wifi_pwd |-> {}]
    ELSE [wifi_ssid |-> ExtractSpans(b, data_len).name,
          wifi_pwd |-> ExtractSpans(b, data_len).secret]

\* The positions of b (1-based, those inside b) the four loops of lines
\* 238-258 read: each scan reads up to and including the byte that stops it,
\* or to the end of b when nothing stops it; the last loop reads while the
\* index is below data_len.
ScannedPositions(b, data_len) ==
    IF SubSeq(b, 1, 4) # SSID_KEY THEN {}
    ELSE
    LET sp == ExtractSpans(b, data_len)
        upTo(p) == IF p = 0 THEN Len(b) ELSE p
        amp2 == IF sp.eq2 = 0 THEN 0
                ELSE FirstAt(b, sp.eq2 + 1, AMPERSAND_OPERATOR_ASCII_VALUE)
        stop == IF amp2 # 0 /\ amp2 <= data_len THEN amp2 ELSE Min(data_len, Len(b))
    IN  (1..upTo(sp.eq1))
        \cup (IF sp.eq1 = 0 THEN {} ELSE (sp.eq1 + 1)..upTo(sp.amp))
        \cup (IF sp.amp = 0 THEN {} ELSE (sp.amp + 1)..upTo(sp.eq2))
        \cup (IF sp.eq2 = 0 THEN {} ELSE (sp.eq2 + 1)..stop)

\* What the extraction leaves in wifi_ssid and wifi_pwd, given the decoded
\* buffer b and the length data_len of the encoded body.
ExtractOutcomes(b, data_len, ssid0, pwd0) ==
    IF SubSeq(b, 1, 4) # SSID_KEY
    THEN { Outcome(ssid0, pwd0, {}, FALSE) }
    ELSE
    LET sp == ExtractSpans(b, data_len)
        name == BytesAt(b, sp.name)
        ssid1 == StoreInto(ssid0, name)
        flt1 == IF Len(name) > WIFI_SSID_LEN THEN {"write_past_wifi_ssid"} ELSE {}
        secret == BytesAt(b, sp.secret)
        pwd1 == StoreInto(pwd0, secret)
        flt2 == (IF Len(secret) > WIFI_PWD_LEN THEN {"write_past_wifi_pwd"} ELSE {})
                \cup (IF sp.last > Len(b) THEN {"read_past_buffer"} ELSE {})
    IN  IF sp.eq1 = 0 THEN ScanLeavesBuffer(ssid0, pwd0, {})
        ELSE IF sp.amp = 0 THEN ScanLeavesBuffer(ssid1, pwd0, flt1)
        ELSE IF sp.eq2 = 0 THEN ScanLeavesBuffer(ssid1, pwd0, flt1)
        ELSE { Outcome(ssid1, pwd1, flt1 \cup flt2, FALSE) }

\* ------------------------------------------------------------------------
\* Requests the transport hands to the handler
\* ------------------------------------------------------------------------
\* Memory at http_message_body->data: the body followed by a zero byte.
Body(bytes) == [data |-> Append(bytes, NULL_CHARACTER_ASCII_VALUE),
                data_length |-> Len(bytes)]

\* "SSID=ab&PASS=cd", "SSID=x&PASS=y", "FOO=bar", "SSID=ab", "SSID",
\* "SSID=abcdef&PASS=c", "SSID=a%20b&PASS=c+d"
Bodies ==
    { Body(SSID_KEY \o <<61, 97, 98, 38>> \o PASS_KEY \o <<61, 99, 100>>),
      Body(SSID_KEY \o <<61, 120, 38>> \o PASS_KEY \o <<61, 121>>),
      Body(<<70, 79, 79, 61, 98, 97, 114>>),
      Body(SSID_KEY \o <<61, 97, 98>>),
      Body(SSID_KEY),
      Body(SSID_KEY \o <<61, 97, 98, 99, 100, 101, 102, 38>> \o PASS_KEY \o <<61, 99>>),
      Body(SSID_KEY \o <<61, 97, 37, 50, 48, 98, 38>> \o PASS_KEY \o <<61, 99, 43, 100>>) }

\* cy_http_request_type_t: the two methods the switch names, and one other.
RequestTypes == {"CY_HTTP_REQUEST_GET", "CY_HTTP_REQUEST_POST", "CY_HTTP_REQUEST_PUT"}

Ev(op, arg, ok) == [op |-> op, arg |-> arg, ok |-> ok]

\* cy_http_server_response_stream_write_payload(stream, payload, ...)
Write(payload, ok) == Ev("write_payload", payload, ok)

Rslt(ok) == IF ok THEN "CY_RSLT_SUCCESS" ELSE "CY_RSLT_TYPE_ERROR"

Globals == [device_configured |-> device_configured, wifi_ssid |-> wifi_ssid,
            wifi_pwd |-> wifi_pwd, buffer |-> buffer, associated |-> associated]

\* ------------------------------------------------------------------------
\* State after construction
\* ------------------------------------------------------------------------
InitAt(configured, position) ==
    /\ device_configured = configured
    /\ wifi_ssid = Zeros(WIFI_SSID_LEN)
    /\ wifi_pwd = Zeros(WIFI_PWD_LEN)
    /\ buffer = Zeros(BUFFER_LENGTH)
    /\ associated = FALSE
    /\ pc = position
    /\ request = [request_type |-> "CY_HTTP_REQUEST_GET", data |-> <<0>>, data_length |-> 0]
    /\ result = "CY_RSLT_SUCCESS"
    /\ status = "HTTP_REQUEST_HANDLE_SUCCESS"
    /\ sta_result = "uninit"
    /\ conn_retries = 0
    /\ connect_param = [SSID |-> Zeros(WIFI_SSID_LEN), password |-> Zeros(WIFI_PWD_LEN)]
    /\ trace = <<>>
    /\ fault = {}
    /\ copied = [wifi_ssid |-> {}, wifi_pwd |-> {}]
    /\ stateAtEntry = [device_configured |-> configured,
                       wifi_ssid |-> Zeros(WIFI_SSID_LEN),
                       wifi_pwd |-> Zeros(WIFI_PWD_LEN),
                       buffer |-> Zeros(BUFFER_LENGTH),
                       associated |-> FALSE]
    /\ everJoined = FALSE
    /\ everFailed = FALSE
    /\ http_wifi_connect_response = Zeros(WIFI_CONNECT_RESPONSE_LENGTH)

\* The HTTP server is running and no request has been dispatched yet.
InitWith(configured) == InitAt(configured, "idle")

\* The globals as their definitions initialise them (lines 94-108).
Init == InitWith(FALSE)

\* ------------------------------------------------------------------------
\* softap_resource_handler
\* ------------------------------------------------------------------------
\* The transport calls the handler with one request; lines 145-146.
HandlerEntry ==
    /\ pc \in {"idle", "done"}
    /\ \E t \in RequestTypes :
         \E b \in (IF t = "CY_HTTP_REQUEST_POST" THEN Bodies ELSE {Body(<<>>)}) :
            request' = [request_type |-> t, data |-> b.data, data_length |-> b.data_length]
    /\ result' = "CY_RSLT_SUCCESS"
    /\ status' = "HTTP_REQUEST_HANDLE_SUCCESS"
    /\ trace' = <<>>
    /\ fault' = {}
    /\ copied' = [wifi_ssid |-> {}, wifi_pwd |-> {}]
    /\ stateAtEntry' = Globals
    /\ pc' = "switch"
    /\ UNCHANGED <<device_configured, wifi_ssid, wifi_pwd, buffer, associated,
                   sta_result, conn_retries, connect_param, everJoined, everFailed,
                   http_wifi_connect_response>>

\* GetPayload with the two pages exchanged.
GetPayload_Swapped(configured) ==
    IF configured THEN "HTTP_SOFTAP_STARTUP_WEBPAGE" ELSE "SOFTAP_DEVICE_DATA"

\* Lines 153-172: the page a GET writes.
GetPayload(configured) ==
    IF ~configured THEN "HTTP_SOFTAP_STARTUP_WEBPAGE" ELSE "SOFTAP_DEVICE_DATA"

\* PostExtracts without the test of device_configured.
PostExtracts_Always(configured) == TRUE

\* Line 177: a POST goes to wifi_extract_credentials.
PostExtracts(configured) == ~configured

\* DefaultCase answering an unsupported method with the 204 header.
DefaultCase_Writes(tr) == Append(tr, Write("HTTP_HEADER_204", TRUE))

\* Lines 196-199: the default case logs and writes nothing.
DefaultCase(tr) == tr

\* SwitchRequestType without the break that ends the GET case: a GET goes on
\* into the POST case.
SwitchRequestType_GetFallsThrough ==
    /\ pc = "switch"
    /\ \E ok \in BOOLEAN :
         IF request.request_type = "CY_HTTP_REQUEST_GET"
         THEN IF PostExtracts(device_configured)
              THEN /\ trace' = Append(trace, Write(GetPayload(device_configured), ok))
                   /\ result' = Rslt(ok)
                   /\ pc' = "extract"
              ELSE /\ trace' = Append(Append(trace, Write(GetPayload(device_configured), ok)),
                                      Write("HTTP_HEADER_204", ok))
                   /\ result' = Rslt(ok)
                   /\ pc' = "return"
         ELSE IF request.request_type = "CY_HTTP_REQUEST_POST"
         THEN IF PostExtracts(device_configured)
              THEN /\ pc' = "extract"
                   /\ UNCHANGED <<trace, result>>
              ELSE /\ trace' = Append(trace, Write("HTTP_HEADER_204", ok))
                   /\ result' = Rslt(ok)
                   /\ pc' = "return"
         ELSE /\ trace' = DefaultCase(trace)
              /\ pc' = "return"
              /\ UNCHANGED result
    /\ UNCHANGED <<device_configured, wifi_ssid, wifi_pwd, buffer, associated,
                   request, status, sta_result, conn_retries, connect_param,
                   fault, copied, stateAtEntry, everJoined, everFailed,
                   http_wifi_connect_response>>

\* The switch on request_type, lines 148-200.
SwitchRequestType ==
    /\ pc = "switch"
    /\ \E ok \in BOOLEAN :
         IF request.request_type = "CY_HTTP_REQUEST_GET"
         THEN /\ trace' = Append(trace, Write(GetPayload(device_configured), ok))
              /\ result' = Rslt(ok)
              /\ pc' = "return"
         ELSE IF request.request_type = "CY_HTTP_REQUEST_POST"
         THEN IF PostExtracts(device_configured)
              THEN /\ pc' = "extract"
                   /\ UNCHANGED <<trace, result>>
              ELSE /\ trace' = Append(trace, Write("HTTP_HEADER_204", ok))
                   /\ result' = Rslt(ok)
                   /\ pc' = "return"
         ELSE /\ trace' = DefaultCase(trace)
              /\ pc' = "return"
              /\ UNCHANGED result
    /\ UNCHANGED <<device_configured, wifi_ssid, wifi_pwd, buffer, associated,
                   request, status, sta_result, conn_retries, connect_param,
                   fault, copied, stateAtEntry, everJoined, everFailed,
                   http_wifi_connect_response>>

\* Lines 202-207.
HandlerStatus(res) ==
    IF res # "CY_RSLT_SUCCESS" THEN "HTTP_REQUEST_HANDLE_ERROR"
    ELSE "HTTP_REQUEST_HANDLE_SUCCESS"

HandlerReturn ==
    /\ pc = "return"
    /\ status' = HandlerStatus(result)
    /\ pc' = "done"
    /\ UNCHANGED <<device_configured, wifi_ssid, wifi_pwd, buffer, associated,
                   request, result, sta_result, conn_retries, connect_param,
                   trace, fault, copied, stateAtEntry, everJoined, everFailed,
                   http_wifi_connect_response>>

\* ------------------------------------------------------------------------
\* wifi_extract_credentials
\* ------------------------------------------------------------------------
\* Lines 232-259: decode the body into buffer, then carve the two values out.
ExtractCredentials ==
    /\ pc = "extract"
    /\ LET decoded == url_decode(request.data)
           b == StoreInto(buffer, decoded)
           over == IF Len(decoded) > BUFFER_LENGTH THEN {"write_past_buffer"} ELSE {}
       IN  /\ buffer' = b
           /\ copied' = CopiedPositions(b, request.data_length)
           /\ \E o \in ExtractOutcomes(b, request.data_length, wifi_ssid, wifi_pwd) :
                /\ wifi_ssid' = o.wifi_ssid
                /\ wifi_pwd' = o.wifi_pwd
                /\ fault' = over \cup o.fault
                /\ pc' = IF o.hang THEN "hang" ELSE "ack"
    /\ UNCHANGED <<device_configured, associated, request, result, status,
                   sta_result, conn_retries, connect_param, trace, stateAtEntry,
                   everJoined, everFailed,
                   http_wifi_connect_response>>

\* AfterAck returning from wifi_extract_credentials when the write failed.
AfterAck_ReturnsOnError(ok) == IF ok THEN "sta_entry" ELSE "return"

\* Lines 261-266: a failed acknowledgement is logged and start_sta_mode is
\* called in either case.
AfterAck(ok) == "sta_entry"

\* Lines 260-264: the connect-in-progress acknowledgement.
WriteInProgress ==
    /\ pc = "ack"
    /\ \E ok \in BOOLEAN :
         /\ trace' = Append(trace, Write("WIFI_CONNECT_IN_PROGRESS", ok))
         /\ result' = Rslt(ok)
         /\ pc' = AfterAck(ok)
    /\ UNCHANGED <<device_configured, wifi_ssid, wifi_pwd, buffer, associated,
                   request, status, sta_result, conn_retries, connect_param,
                   fault, copied, stateAtEntry, everJoined, everFailed,
                   http_wifi_connect_response>>

\* ------------------------------------------------------------------------
\* start_sta_mode
\* ------------------------------------------------------------------------
\* DisconnectFirst never disconnecting.
DisconnectFirst_Never(wifi_conct_stat) == FALSE

\* Line 361: disconnect when cy_wcm_is_connected_to_ap() says connected.
DisconnectFirst(wifi_conct_stat) == wifi_conct_stat

\* LoopInit keeping the counter of the previous call.
LoopInit_Keeps(old) == old

\* Line 376, the initialiser of the for loop.
LoopInit(old) == 0

\* LoopContinues with an off-by-one condition.
LoopContinues_OneMore(n) == n <= MAX_WIFI_RETRY_COUNT

\* Line 376, the condition of the for loop.
LoopContinues(n) == n < MAX_WIFI_RETRY_COUNT

\* BreaksLoop leaving the loop after any attempt.
BreaksLoop_Always(ok) == TRUE

\* BreaksLoop without the break.
BreaksLoop_Never(ok) == FALSE

\* Line 379: a successful cy_wcm_connect_ap leaves the loop.
BreaksLoop(ok) == ok

\* Lines 359-376: release an earlier association, copy the credentials, enter
\* the loop.
StaEntry ==
    /\ pc = "sta_entry"
    /\ LET asked == Append(trace, Ev("cy_wcm_is_connected_to_ap", "", associated))
       IN  IF DisconnectFirst(associated)
           THEN /\ trace' = Append(asked, Ev("cy_wcm_disconnect_ap", "", TRUE))
                /\ associated' = FALSE
           ELSE /\ trace' = asked
                /\ UNCHANGED associated
    /\ connect_param' = [SSID |-> wifi_ssid, password |-> wifi_pwd]
    /\ sta_result' = "uninit"
    /\ conn_retries' = LoopInit(conn_retries)
    /\ pc' = IF LoopContinues(LoopInit(conn_retries)) THEN "sta_loop" ELSE "sta_return"
    /\ UNCHANGED <<device_configured, wifi_ssid, wifi_pwd, buffer, request,
                   result, status, fault, copied, stateAtEntry, everJoined, everFailed,
                   http_wifi_connect_response>>

\* Lines 378-384: one cy_wcm_connect_ap call; the network decides its result.
ConnectAttempt ==
    /\ pc = "sta_loop"
    /\ \E ok \in BOOLEAN :
         /\ trace' = Append(trace, Ev("cy_wcm_connect_ap", "", ok))
         /\ sta_result' = Rslt(ok)
         /\ associated' = (associated \/ ok)
         /\ pc' = IF BreaksLoop(ok) THEN "sta_return" ELSE "sta_delay"
    /\ UNCHANGED <<device_configured, wifi_ssid, wifi_pwd, buffer, request,
                   result, status, conn_retries, connect_param, fault, copied,
                   stateAtEntry, everJoined, everFailed,
                   http_wifi_connect_response>>

\* DelayAfterFailure waiting only when another attempt follows.
DelayAfterFailure_NotLast(n) == n + 1 < MAX_WIFI_RETRY_COUNT

\* Line 386: the delay follows every failed attempt, n being the value of
\* conn_retries during the attempt.
DelayAfterFailure(n) == TRUE

\* Lines 386-387 and the loop's increment and condition.
RetryDelay ==
    /\ pc = "sta_delay"
    /\ trace' = IF DelayAfterFailure(conn_retries)
                THEN Append(trace, Ev("cy_rtos_delay_milliseconds",
                                      "WIFI_CONN_RETRY_INTERVAL_MSEC", TRUE))
                ELSE trace
    /\ conn_retries' = conn_retries + 1
    /\ pc' = IF LoopContinues(conn_retries + 1) THEN "sta_loop" ELSE "sta_return"
    /\ UNCHANGED <<device_configured, wifi_ssid, wifi_pwd, buffer, associated,
                   request, result, status, sta_result, connect_param, fault, copied,
                   stateAtEntry, everJoined, everFailed,
                   http_wifi_connect_response>>

\* OutcomePayload with the two branches exchanged.
OutcomePayload_Swapped(joined) ==
    IF joined THEN "WIFI_CONNECT_FAIL_RESPONSE" ELSE "WIFI_CONNECT_SUCCESS_RESPONSE"

\* Lines 267-290: the fragment sprintf builds for the outcome.
OutcomePayload(joined) ==
    IF ~joined THEN "WIFI_CONNECT_FAIL_RESPONSE" ELSE "WIFI_CONNECT_SUCCESS_RESPONSE"

\* The texts of html_web_page.h, which is not among the sources: short
\* stand-ins, "<", "ok>" and "fail>", the two endings being different texts.
WIFI_CONNECT_RESPONSE_START == <<60>>
WIFI_CONNECT_SUCCESS_RESPONSE_END == <<111, 107, 62>>
WIFI_CONNECT_FAIL_RESPONSE_END == <<102, 97, 105, 108, 62>>

\* The characters the two sprintf calls of lines 269-272 or 281-284 store from
\* the start of http_wifi_connect_response, terminator included.
OutcomeText(joined) ==
    WIFI_CONNECT_RESPONSE_START
        \o (IF ~joined THEN WIFI_CONNECT_FAIL_RESPONSE_END
            ELSE WIFI_CONNECT_SUCCESS_RESPONSE_END)
        \o <<NULL_CHARACTER_ASCII_VALUE>>

\* http_wifi_connect_response after the two sprintf calls: the text is stored
\* over the start of the array and the rest of the array is left as it was.
FormatResponse(resp, joined) == StoreInto(resp, OutcomeText(joined))

\* OutcomeResult returning the failure of start_sta_mode when the joins failed.
OutcomeResult_KeepsJoinFailure(joined, ok) == Rslt(joined /\ ok)

\* Lines 273 and 285: result, which held what start_sta_mode returned, is
\* assigned the result of the outcome write, and line 291 returns it.
OutcomeResult(joined, ok) == Rslt(ok)

\* ConfiguredAfterOutcome setting the flag whatever start_sta_mode returned.
ConfiguredAfterOutcome_Always(configured, joined) == TRUE

\* Lines 266-291 hold no assignment to device_configured: the flag after the
\* outcome of the join is the flag before it.
ConfiguredAfterOutcome(configured, joined) == configured

\* Lines 266-291: start_sta_mode returns, the outcome fragment is written and
\* the result of that write is what wifi_extract_credentials returns.  A
\* result that no loop iteration assigned compares either way.
WriteOutcome ==
    /\ pc = "sta_return"
    /\ \E joined \in (IF sta_result = "uninit" THEN BOOLEAN
                      ELSE {sta_result = "CY_RSLT_SUCCESS"}) :
         /\ \E ok \in BOOLEAN :
              /\ trace' = Append(trace, Write(OutcomePayload(joined), ok))
              /\ result' = OutcomeResult(joined, ok)
         /\ http_wifi_connect_response' = FormatResponse(http_wifi_connect_response, joined)
         /\ fault' = fault \cup (IF Len(OutcomeText(joined)) > WIFI_CONNECT_RESPONSE_LENGTH
                                 THEN {"write_past_response"} ELSE {})
         /\ device_configured' = ConfiguredAfterOutcome(device_configured, joined)
         /\ everJoined' = (everJoined \/ joined)
         /\ everFailed' = (everFailed \/ ~joined)
    /\ pc' = "return"
    /\ UNCHANGED <<wifi_ssid, wifi_pwd, buffer, associated,
                   request, status, sta_result, conn_retries, connect_param,
                   copied, stateAtEntry>>

\* ------------------------------------------------------------------------
\* Specifications
\* ------------------------------------------------------------------------
Next ==
    \/ HandlerEntry
    \/ SwitchRequestType
    \/ ExtractCredentials
    \/ WriteInProgress
    \/ StaEntry
    \/ ConnectAttempt
    \/ RetryDelay
    \/ WriteOutcome
    \/ HandlerReturn

Spec == Init /\ [][Next]_vars

\* device_configured is a volatile object with external linkage that no
\* function of web_server.c assigns: here other code sets it between two
\* handler invocations, so that both branches of the handler run.
ExternalSetConfigured ==
    /\ pc \in {"idle", "done"}
    /\ device_configured' = ~device_configured
    /\ pc' = "idle"
    /\ UNCHANGED <<wifi_ssid, wifi_pwd, buffer, associated, request, result,
                   status, sta_result, conn_retries, connect_param, trace,
                   fault, copied, stateAtEntry, everJoined, everFailed,
                   http_wifi_connect_response>>

NextHandler == Next \/ ExternalSetConfigured

SpecHandler == Init /\ [][NextHandler]_vars

\* ------------------------------------------------------------------------
\* url_decode on its own: one call on a source string drawn from
\* DecodeInputs, with the zero-initialised buffer as destination.
\* ------------------------------------------------------------------------
\* '%', '+', '2', 'F', 'a', 'x' and a byte above the ASCII range.
DecodeAlphabet == {37, 43, 50, 70, 97, 120, 200}

DecodeInputs == UNION { [1..n -> DecodeAlphabet] : n \in 0..MaxDecodeLen }

\* Sources about as long as buffer: BUFFER_LENGTH - 2 plain bytes followed by
\* one of DecodeInputs, so that some decoded forms fit and others do not.
LongDecodeInputs ==
    { [i \in 1..(BUFFER_LENGTH - 2) |-> 98] \o x : x \in DecodeInputs }

InitDecodeWith(sources) ==
    /\ device_configured = FALSE
    /\ wifi_ssid = Zeros(WIFI_SSID_LEN)
    /\ wifi_pwd = Zeros(WIFI_PWD_LEN)
    /\ buffer = Zeros(BUFFER_LENGTH)
    /\ associated = FALSE
    /\ pc = "url_decode"
    /\ \E x \in sources :
         request = [request_type |-> "CY_HTTP_REQUEST_POST",
                    data |-> Body(x).data, data_length |-> Body(x).data_length]
    /\ result = "CY_RSLT_SUCCESS"
    /\ status = "HTTP_REQUEST_HANDLE_SUCCESS"
    /\ sta_result = "uninit"
    /\ conn_retries = 0
    /\ connect_param = [SSID |-> Zeros(WIFI_SSID_LEN), password |-> Zeros(WIFI_PWD_LEN)]
    /\ trace = <<>>
    /\ fault = {}
    /\ copied = [wifi_ssid |-> {}, wifi_pwd |-> {}]
    /\ stateAtEntry = [device_configured |-> FALSE,
                       wifi_ssid |-> Zeros(WIFI_SSID_LEN),
                       wifi_pwd |-> Zeros(WIFI_PWD_LEN),
                       buffer |-> Zeros(BUFFER_LENGTH),
                       associated |-> FALSE]
    /\ everJoined = FALSE
    /\ everFailed = FALSE
    /\ http_wifi_connect_response = Zeros(WIFI_CONNECT_RESPONSE_LENGTH)

InitDecode == InitDecodeWith(DecodeInputs)

InitDecodeLong == InitDecodeWith(LongDecodeInputs)

\* url_decode(buffer, data), line 233.  The function is given no size of
\* dst: the bytes that do not fit are stored past the end of buffer.
DecodeCall ==
    /\ pc = "url_decode"
    /\ buffer' = StoreInto(buffer, url_decode(request.data))
    /\ fault' = IF Len(url_decode(request.data)) > BUFFER_LENGTH
                THEN {"write_past_buffer"} ELSE {}
    /\ pc' = "url_decode_done"
    /\ UNCHANGED <<device_configured, wifi_ssid, wifi_pwd, associated, request,
                   result, status, sta_result, conn_retries, connect_param,
                   trace, copied, stateAtEntry, everJoined, everFailed,
                   http_wifi_connect_response>>

NextDecode == DecodeCall

SpecDecode == InitDecode /\ [][NextDecode]_vars

SpecDecodeLong == InitDecodeLong /\ [][NextDecode]_vars

\* ------------------------------------------------------------------------
\* server_task: the bring-up that ends with cy_http_server_start, followed by
\* the requests the started server dispatches to the handler.
\* ------------------------------------------------------------------------
\* PRINT_AND_ASSERT(result, ...): web_server.h, which defines the macro, is
\* not among the sources; a result other than CY_RSLT_SUCCESS stops the task.
AssertStops(ok) == ~ok

Call(op, ok, checked) == [op |-> op, ok |-> ok, checked |-> checked]

\* Position (1-based) of the first call of the sequence whose result is
\* handed to PRINT_AND_ASSERT and stops the task; 0 when none does.
FirstStop(calls) ==
    LET stops == {i \in 1..Len(calls) : calls[i].checked /\ AssertStops(calls[i].ok)}
    IN  IF stops = {} THEN 0 ELSE CHOOSE i \in stops : \A j \in stops : i <= j

\* The calls of the sequence that are made, as events of the trace.
Made(calls) ==
    LET n == IF FirstStop(calls) = 0 THEN Len(calls) ELSE FirstStop(calls)
    IN  [i \in 1..n |-> Ev(calls[i].op, "", calls[i].ok)]

\* Where server_task is after the calls: at `to`, or stopped by the first
\* call whose result PRINT_AND_ASSERT rejects.
After(calls, to) == IF FirstStop(calls) = 0 THEN to ELSE "stopped"

\* Lines 540-541.
WcmInit ==
    /\ pc = "server_task"
    /\ \E ok \in BOOLEAN :
         LET calls == <<Call("cy_wcm_init", ok, TRUE)>>
         IN  /\ trace' = trace \o Made(calls)
             /\ pc' = After(calls, "start_ap_mode")
    /\ UNCHANGED <<device_configured, wifi_ssid, wifi_pwd, buffer, associated,
                   request, result, status, sta_result, conn_retries,
                   connect_param, fault, copied, stateAtEntry, everJoined,
                   everFailed,
                   http_wifi_connect_response>>

\* start_ap_mode, lines 327-332, and the check of its result at line 544.
StartApMode ==
    /\ pc = "start_ap_mode"
    /\ \E ok1, ok2 \in BOOLEAN :
         LET calls == <<Call("cy_wcm_start_ap", ok1, TRUE),
                        Call("cy_wcm_get_ip_addr", ok2, TRUE)>>
         IN  /\ trace' = trace \o Made(calls)
             /\ pc' = After(calls, "configure_http_server")
    /\ UNCHANGED <<device_configured, wifi_ssid, wifi_pwd, buffer, associated,
                   request, result, status, sta_result, conn_retries,
                   connect_param, fault, copied, stateAtEntry, everJoined,
                   everFailed,
                   http_wifi_connect_response>>

\* configure_http_server, lines 416-443, and the check of its result at line
\* 547: the result of cy_http_server_network_init is assigned at line 427 and
\* assigned again at line 430 before anything reads it.
ConfigureHttpServer ==
    /\ pc = "configure_http_server"
    /\ \E ok1, ok2, ok3, ok4 \in BOOLEAN :
         LET calls == <<Call("cy_wcm_get_ip_addr", ok1, TRUE),
                        Call("cy_http_server_network_init", ok2, FALSE),
                        Call("cy_http_server_create", ok3, TRUE),
                        Call("cy_http_server_register_resource", ok4, TRUE)>>
         IN  /\ trace' = trace \o Made(calls)
             /\ pc' = After(calls, "http_server_start")
    /\ UNCHANGED <<device_configured, wifi_ssid, wifi_pwd, buffer, associated,
                   request, result, status, sta_result, conn_retries,
                   connect_param, fault, copied, stateAtEntry, everJoined,
                   everFailed,
                   http_wifi_connect_response>>

\* Lines 550-553: cy_http_server_start, then display_configuration (line 585).
\* From here on the server dispatches requests to softap_resource_handler.
HttpServerStart ==
    /\ pc = "http_server_start"
    /\ \E ok1, ok2 \in BOOLEAN :
         LET calls == <<Call("cy_http_server_start", ok1, TRUE),
                        Call("cy_wcm_get_ip_addr", ok2, TRUE)>>
         IN  /\ trace' = trace \o Made(calls)
             /\ pc' = After(calls, "idle")
    /\ UNCHANGED <<device_configured, wifi_ssid, wifi_pwd, buffer, associated,
                   request, result, status, sta_result, conn_retries,
                   connect_param, fault, copied, stateAtEntry, everJoined,
                   everFailed,
                   http_wifi_connect_response>>

InitBoot == InitAt(FALSE, "server_task")

NextBoot ==
    \/ WcmInit
    \/ StartApMode
    \/ ConfigureHttpServer
    \/ HttpServerStart
    \/ Next

SpecBoot == InitBoot /\ [][NextBoot]_vars

\* ------------------------------------------------------------------------
\* Two invocations of the handler in flight at once.  cy_http_server_create
\* is given MAX_SOCKETS connections (line 430) and web_server.c holds no
\* lock: here the server runs the handler for two POSTs on two threads, each
\* step of one thread being taken between any two steps of the other.  The
\* globals are shared; pc, request, result, status, sta_result, conn_retries,
\* connect_param and trace belong to the invocation and are kept per thread.
\* ------------------------------------------------------------------------
Threads == {1, 2}

\* "SSID=ab&PASS=cd" and "SSID=xy&PASS=zw": two complete forms whose values
\* have the same lengths, so that each overwrites the other entirely.
ConcurrentBodies ==
    { Body(SSID_KEY \o <<61, 97, 98, 38>> \o PASS_KEY \o <<61, 99, 100>>),
      Body(SSID_KEY \o <<61, 120, 121, 38>> \o PASS_KEY \o <<61, 122, 119>>) }

InitConcurrent ==
    /\ device_configured = FALSE
    /\ wifi_ssid = Zeros(WIFI_SSID_LEN)
    /\ wifi_pwd = Zeros(WIFI_PWD_LEN)
    /\ buffer = Zeros(BUFFER_LENGTH)
    /\ associated = FALSE
    /\ pc = [t \in Threads |-> "idle"]
    /\ request = [t \in Threads |->
                    [request_type |-> "CY_HTTP_REQUEST_GET", data |-> <<0>>, data_length |-> 0]]
    /\ result = [t \in Threads |-> "CY_RSLT_SUCCESS"]
    /\ status = [t \in Threads |-> "HTTP_REQUEST_HANDLE_SUCCESS"]
    /\ sta_result = [t \in Threads |-> "uninit"]
    /\ conn_retries = [t \in Threads |-> 0]
    /\ connect_param = [t \in Threads |->
                          [SSID |-> Zeros(WIFI_SSID_LEN), password |-> Zeros(WIFI_PWD_LEN)]]
    /\ trace = [t \in Threads |-> <<>>]
    /\ fault = {}
    /\ copied = [wifi_ssid |-> {}, wifi_pwd |-> {}]
    /\ stateAtEntry = [device_configured |-> FALSE,
                       wifi_ssid |-> Zeros(WIFI_SSID_LEN),
                       wifi_pwd |-> Zeros(WIFI_PWD_LEN),
                       buffer |-> Zeros(BUFFER_LENGTH),
                       associated |-> FALSE]
    /\ everJoined = FALSE
    /\ everFailed = FALSE
    /\ http_wifi_connect_response = Zeros(WIFI_CONNECT_RESPONSE_LENGTH)

\* Lines 145-177: the server hands a POST to the handler on thread t, and
\* the handler, device_configured being clear, calls wifi_extract_credentials.
ThreadEntry(t) ==
    /\ pc[t] \in {"idle", "done"}
    /\ PostExtracts(device_configured)
    /\ \E b \in ConcurrentBodies :
         request' = [request EXCEPT ![t] =
                        [request_type |-> "CY_HTTP_REQUEST_POST",
                         data |-> b.data, data_length |-> b.data_length]]
    /\ result' = [result EXCEPT ![t] = "CY_RSLT_SUCCESS"]
    /\ status' = [status EXCEPT ![t] = "HTTP_REQUEST_HANDLE_SUCCESS"]
    /\ trace' = [trace EXCEPT ![t] = <<>>]
    /\ pc' = [pc EXCEPT ![t] = "url_decode"]
    /\ UNCHANGED <<device_configured, wifi_ssid, wifi_pwd, buffer, associated,
                   sta_result, conn_retries, connect_param, fault, copied,
                   stateAtEntry, everJoined, everFailed,
                   http_wifi_connect_response>>

\* Line 233: url_decode(buffer, data) on thread t.
ThreadDecode(t) ==
    /\ pc[t] = "url_decode"
    /\ buffer' = StoreInto(buffer, url_decode(request[t].data))
    /\ pc' = [pc EXCEPT ![t] = "scan"]
    /\ UNCHANGED <<device_configured, wifi_ssid, wifi_pwd, associated, request,
                   result, status, sta_result, conn_retries, connect_param,
                   trace, fault, copied, stateAtEntry, everJoined, everFailed,
                   http_wifi_connect_response>>

\* Lines 235-259 on thread t: the loops carve the values out of buffer as it
\* is now.
ThreadScan(t) ==
    /\ pc[t] = "scan"
    /\ \E o \in ExtractOutcomes(buffer, request[t].data_length, wifi_ssid, wifi_pwd) :
         /\ wifi_ssid' = o.wifi_ssid
         /\ wifi_pwd' = o.wifi_pwd
         /\ fault' = fault \cup o.fault
         /\ pc' = [pc EXCEPT ![t] = IF o.hang THEN "hang" ELSE "ack"]
    /\ UNCHANGED <<device_configured, buffer, associated, request, result,
                   status, sta_result, conn_retries, connect_param, trace,
                   copied, stateAtEntry, everJoined, everFailed,
                   http_wifi_connect_response>>

\* Lines 260-264 on thread t.
ThreadWriteInProgress(t) ==
    /\ pc[t] = "ack"
    /\ \E ok \in BOOLEAN :
         /\ trace' = [trace EXCEPT ![t] = Append(@, Write("WIFI_CONNECT_IN_PROGRESS", ok))]
         /\ result' = [result EXCEPT ![t] = Rslt(ok)]
         /\ pc' = [pc EXCEPT ![t] = AfterAck(ok)]
    /\ UNCHANGED <<device_configured, wifi_ssid, wifi_pwd, buffer, associated,
                   request, status, sta_result, conn_retries, connect_param,
                   fault, copied, stateAtEntry, everJoined, everFailed,
                   http_wifi_connect_response>>

\* Lines 359-376 on thread t: connect_param is a local of start_sta_mode.
ThreadStaEntry(t) ==
    /\ pc[t] = "sta_entry"
    /\ LET asked == Append(trace[t], Ev("cy_wcm_is_connected_to_ap", "", associated))
       IN  IF DisconnectFirst(associated)
           THEN /\ trace' = [trace EXCEPT ![t] =
                                Append(asked, Ev("cy_wcm_disconnect_ap", "", TRUE))]
                /\ associated' = FALSE
           ELSE /\ trace' = [trace EXCEPT ![t] = asked]
                /\ UNCHANGED associated
    /\ connect_param' = [connect_param EXCEPT ![t] =
                            [SSID |-> wifi_ssid, password |-> wifi_pwd]]
    /\ sta_result' = [sta_result EXCEPT ![t] = "uninit"]
    /\ conn_retries' = [conn_retries EXCEPT ![t] = LoopInit(@)]
    /\ pc' = [pc EXCEPT ![t] = IF LoopContinues(LoopInit(conn_retries[t]))
                               THEN "sta_loop" ELSE "sta_return"]
    /\ UNCHANGED <<device_configured, wifi_ssid, wifi_pwd, buffer, request,
                   result, status, fault, copied, stateAtEntry, everJoined, everFailed,
                   http_wifi_connect_response>>

\* Lines 378-384 on thread t.
ThreadConnectAttempt(t) ==
    /\ pc[t] = "sta_loop"
    /\ \E ok \in BOOLEAN :
         /\ trace' = [trace EXCEPT ![t] = Append(@, Ev("cy_wcm_connect_ap", "", ok))]
         /\ sta_result' = [sta_result EXCEPT ![t] = Rslt(ok)]
         /\ associated' = (associated \/ ok)
         /\ pc' = [pc EXCEPT ![t] = IF BreaksLoop(ok) THEN "sta_return" ELSE "sta_delay"]
    /\ UNCHANGED <<device_configured, wifi_ssid, wifi_pwd, buffer, request,
                   result, status, conn_retries, connect_param, fault, copied,
                   stateAtEntry, everJoined, everFailed,
                   http_wifi_connect_response>>

\* Lines 386-387 and the loop's increment and condition, on thread t.
ThreadRetryDelay(t) ==
    /\ pc[t] = "sta_delay"
    /\ trace' = [trace EXCEPT ![t] =
                    IF DelayAfterFailure(conn_retries[t])
                    THEN Append(@, Ev("cy_rtos_delay_milliseconds",
                                      "WIFI_CONN_RETRY_INTERVAL_MSEC", TRUE))
                    ELSE @]
    /\ conn_retries' = [conn_retries EXCEPT ![t] = @ + 1]
    /\ pc' = [pc EXCEPT ![t] = IF LoopContinues(conn_retries[t] + 1)
                               THEN "sta_loop" ELSE "sta_return"]
    /\ UNCHANGED <<device_configured, wifi_ssid, wifi_pwd, buffer, associated,
                   request, result, status, sta_result, connect_param, fault,
                   copied, stateAtEntry, everJoined, everFailed,
                   http_wifi_connect_response>>

\* Lines 266-291 and 202-207 on thread t: the outcome fragment is written
\* and the handler returns.
ThreadWriteOutcome(t) ==
    /\ pc[t] = "sta_return"
    /\ \E joined \in (IF sta_result[t] = "uninit" THEN BOOLEAN
                      ELSE {sta_result[t] = "CY_RSLT_SUCCESS"}) :
         /\ \E ok \in BOOLEAN :
              /\ trace' = [trace EXCEPT ![t] = Append(@, Write(OutcomePayload(joined), ok))]
              /\ result' = [result EXCEPT ![t] = OutcomeResult(joined, ok)]
              /\ status' = [status EXCEPT ![t] = HandlerStatus(OutcomeResult(joined, ok))]
         /\ http_wifi_connect_response' = FormatResponse(http_wifi_connect_response, joined)
         /\ device_configured' = ConfiguredAfterOutcome(device_configured, joined)
    /\ pc' = [pc EXCEPT ![t] = "done"]
    /\ UNCHANGED <<wifi_ssid, wifi_pwd, buffer, associated, request,
                   sta_result, conn_retries, connect_param, fault, copied,
                   stateAtEntry, everJoined, everFailed>>

NextConcurrent ==
    \E t \in Threads :
        \/ ThreadEntry(t)
        \/ ThreadDecode(t)
        \/ ThreadScan(t)
        \/ ThreadWriteInProgress(t)
        \/ ThreadStaEntry(t)
        \/ ThreadConnectAttempt(t)
        \/ ThreadRetryDelay(t)
        \/ ThreadWriteOutcome(t)

SpecConcurrent == InitConcurrent /\ [][NextConcurrent]_vars

\* ------------------------------------------------------------------------
\* Reading the trace of the current invocation
\* ------------------------------------------------------------------------
IsWrite(e) == e.op = "write_payload"
IsJoin(e) == e.op = "cy_wcm_connect_ap"
IsDelay(e) == e.op = "cy_rtos_delay_milliseconds"
IsDisconnect(e) == e.op = "cy_wcm_disconnect_ap"
IsNetworkControl(e) ==
    e.op \in {"cy_wcm_is_connected_to_ap", "cy_wcm_disconnect_ap", "cy_wcm_connect_ap"}

Writes == SelectSeq(trace, IsWrite)
Joins == SelectSeq(trace, IsJoin)
Delays == SelectSeq(trace, IsDelay)
NetworkCalls == SelectSeq(trace, IsNetworkControl)

IsGet == request.request_type = "CY_HTTP_REQUEST_GET"
IsPost == request.request_type = "CY_HTTP_REQUEST_POST"
IsOther == ~IsGet /\ ~IsPost

\* The invocation under way, or just completed, is one the handler began.
InInvocation == pc # "idle"
Returned == pc = "done"
PostUnconfigured == InInvocation /\ IsPost /\ ~stateAtEntry.device_configured
PostConfigured == InInvocation /\ IsPost /\ stateAtEntry.device_configured

\* start_sta_mode has returned in the current invocation.
StaReturned == PostUnconfigured /\ pc \in {"sta_return", "return", "done"}
SomeJoinSucceeded == \E i \in 1..Len(trace) : IsJoin(trace[i]) /\ trace[i].ok
AllJoinsFailed == ~SomeJoinSucceeded

\* ------------------------------------------------------------------------
\* Claims
\* ------------------------------------------------------------------------

\* C1: a POST with joinable credentials handled while Unconfigured leaves
\* device_configured set, and every GET handled after it writes the
\* device-status page, not the startup page.
C1_JoinedPostConfigures ==
    /\ (Returned /\ PostUnconfigured /\ SomeJoinSucceeded) => device_configured
    /\ (Returned /\ IsGet /\ everJoined) =>
          (Len(Writes) = 1 /\ Writes[1].arg = "SOFTAP_DEVICE_DATA")

\* C2: a GET makes exactly one response write and no network-control call;
\* the payload is the startup page when Unconfigured and the device-status
\* page when Configured.
C2_GetWritesOnePage ==
    (InInvocation /\ IsGet) =>
        /\ NetworkCalls = <<>>
        /\ fault = {}
        /\ Len(trace) = (IF pc = "switch" THEN 0 ELSE 1)
        /\ pc \in {"switch", "return", "done"}
        /\ pc # "switch" =>
              /\ IsWrite(trace[1])
              /\ trace[1].arg = (IF stateAtEntry.device_configured
                                 THEN "SOFTAP_DEVICE_DATA"
                                 ELSE "HTTP_SOFTAP_STARTUP_WEBPAGE")

C2_Witness ==
    /\ Returned /\ IsGet /\ device_configured
    /\ trace = <<Write("SOFTAP_DEVICE_DATA", TRUE)>>

\* C3: a POST handled while Unconfigured writes the connect-in-progress
\* acknowledgement first and then exactly one outcome fragment, which is the
\* success fragment exactly when start_sta_mode returned success.
C3_AckThenOneOutcome ==
    /\ (PostUnconfigured /\ pc \in {"return", "done"}) =>
          /\ Len(Writes) = 2
          /\ Writes[1] = trace[1]
          /\ Writes[1].arg = "WIFI_CONNECT_IN_PROGRESS"
          /\ Writes[2] = trace[Len(trace)]
          /\ Writes[2].arg = (IF sta_result = "CY_RSLT_SUCCESS"
                              THEN "WIFI_CONNECT_SUCCESS_RESPONSE"
                              ELSE "WIFI_CONNECT_FAIL_RESPONSE")
          /\ sta_result \in {"CY_RSLT_SUCCESS", "CY_RSLT_TYPE_ERROR"}
    /\ (PostUnconfigured /\ pc \in {"sta_entry", "sta_loop", "sta_delay", "sta_return"}) =>
          /\ Len(Writes) = 1
          /\ Writes[1].arg = "WIFI_CONNECT_IN_PROGRESS"

C3_Witness ==
    /\ Returned /\ PostUnconfigured
    /\ Len(Joins) = 2 /\ Joins[2].ok
    /\ Writes[2].arg = "WIFI_CONNECT_SUCCESS_RESPONSE"

\* C4: a POST handled while Configured writes the 204 acknowledgement and
\* nothing else: no decoding, no extraction, no connection attempt, and
\* the credentials, the scratch buffer and device_configured keep their values.
C4_PostConfiguredOnly204 ==
    PostConfigured =>
        /\ pc \in {"switch", "return", "done"}
        /\ Globals = stateAtEntry
        /\ fault = {}
        /\ NetworkCalls = <<>>
        /\ Len(trace) = (IF pc = "switch" THEN 0 ELSE 1)
        /\ pc # "switch" => (IsWrite(trace[1]) /\ trace[1].arg = "HTTP_HEADER_204")

C4_Witness ==
    /\ Returned /\ PostConfigured
    /\ wifi_ssid # Zeros(WIFI_SSID_LEN)
    /\ request.data_length > 0
    /\ SubSeq(buffer, 1, request.data_length) # SubSeq(request.data, 1, request.data_length)

C6_OtherMethodReturnsError ==
    (Returned /\ IsOther) => status = "HTTP_REQUEST_HANDLE_ERROR"

\* Positions in the trace of the connect calls of the current invocation.
JoinPositions == {i \in 1..Len(trace) : IsJoin(trace[i])}

\* C7: when every cy_wcm_connect_ap call fails, one start_sta_mode makes
\* exactly MAX_WIFI_RETRY_COUNT connect calls, waits the retry delay between
\* each two consecutive ones, and returns failure.
C7_AllFailMakesMaxAttempts ==
    (StaReturned /\ AllJoinsFailed) =>
        /\ Len(Joins) = MAX_WIFI_RETRY_COUNT
        /\ \A i, j \in JoinPositions :
              (i < j /\ ~\E k \in JoinPositions : i < k /\ k < j) =>
                  /\ j = i + 2
                  /\ IsDelay(trace[i + 1])
                  /\ trace[i + 1].arg = "WIFI_CONN_RETRY_INTERVAL_MSEC"
        /\ sta_result = "CY_RSLT_TYPE_ERROR"

C7_Witness ==
    /\ pc = "sta_return" /\ PostUnconfigured /\ AllJoinsFailed
    /\ Len(Joins) = MAX_WIFI_RETRY_COUNT
    /\ Len(Delays) >= MAX_WIFI_RETRY_COUNT - 1

\* C8: the retry loop stops at the first success: when the k-th connect call
\* is the first to succeed, start_sta_mode has made exactly k connect calls,
\* makes no delay and no connect call after it, and returns success.
C8_StopsAtFirstSuccess ==
    /\ \A i \in JoinPositions :
          trace[i].ok =>
              /\ \A j \in (i + 1)..Len(trace) : ~IsJoin(trace[j]) /\ ~IsDelay(trace[j])
              /\ pc \in {"sta_return", "return", "done"}
    /\ (StaReturned /\ SomeJoinSucceeded) =>
          /\ Len(Joins) \in 1..MAX_WIFI_RETRY_COUNT
          /\ Joins[Len(Joins)].ok
          /\ \A k \in 1..(Len(Joins) - 1) : ~Joins[k].ok
          /\ Len(Delays) = Len(Joins) - 1
          /\ sta_result = "CY_RSLT_SUCCESS"

C8_Witness ==
    /\ pc = "sta_return" /\ PostUnconfigured
    /\ Len(Joins) = 2 /\ ~Joins[1].ok /\ Joins[2].ok
    /\ Len(Delays) = 1

DecodedText == DecodeFrom(request.data, 1, <<>>)

BeginsWithKey(t) == Len(t) >= 4 /\ SubSeq(t, 1, 4) = SSID_KEY

\* t is SSID=<n>&PASS=<s>, n and s free of '&' and '='.
FormName(t) == SubSeq(t, 6, FirstAt(t, 1, AMPERSAND_OPERATOR_ASCII_VALUE) - 1)
FormSecret(t) == SubSeq(t, FirstAt(t, 1, AMPERSAND_OPERATOR_ASCII_VALUE) + 6, Len(t))
IsForm(t) ==
    LET amp == FirstAt(t, 1, AMPERSAND_OPERATOR_ASCII_VALUE)
        plain(v) == \A i \in 1..Len(v) :
                       v[i] \notin {AMPERSAND_OPERATOR_ASCII_VALUE,
                                    EQUALS_OPERATOR_ASCII_VALUE,
                                    NULL_CHARACTER_ASCII_VALUE}
    IN  /\ Len(t) >= 11
        /\ SubSeq(t, 1, 5) = SSID_KEY \o <<EQUALS_OPERATOR_ASCII_VALUE>>
        /\ amp >= 6
        /\ Len(t) >= amp + 5
        /\ SubSeq(t, amp + 1, amp + 5) = PASS_KEY \o <<EQUALS_OPERATOR_ASCII_VALUE>>
        /\ plain(FormName(t))
        /\ plain(FormSecret(t))

\* The value v as it fills a zeroed array of n bytes.
Padded(v, n) == [i \in 1..n |-> IF i <= Len(v) THEN v[i] ELSE NULL_CHARACTER_ASCII_VALUE]

AfterExtraction == pc \in {"ack", "hang", "sta_entry", "sta_loop", "sta_delay",
                           "sta_return", "return", "done"}
AfterStaEntry == pc \in {"sta_loop", "sta_delay", "sta_return", "return", "done"}

\* C11: for a POST handled while Unconfigured whose body is SSID=<n>&PASS=<s>
\* with both values within their capacities, the credential handed to
\* cy_wcm_connect_ap has name exactly n and secret exactly s, whatever POSTs
\* came before.
C11_CredentialIsThisPosts ==
    (PostUnconfigured /\ AfterStaEntry /\ IsForm(DecodedText)
       /\ Len(FormName(DecodedText)) <= WIFI_SSID_LEN
       /\ Len(FormSecret(DecodedText)) <= WIFI_PWD_LEN) =>
        /\ connect_param.SSID = Padded(FormName(DecodedText), WIFI_SSID_LEN)
        /\ connect_param.password = Padded(FormSecret(DecodedText), WIFI_PWD_LEN)

\* C12: the bytes copied into the network name and the network secret all lie
\* before the terminator of the decoded text: nothing at or after it is copied.
C12_CopiesOnlyDecodedText ==
    (PostUnconfigured /\ AfterExtraction) =>
        \A p \in copied.wifi_ssid \cup copied.wifi_pwd : p <= Len(DecodedText)

\* C13: when the decoded body does not begin with the network-name key the
\* extraction fails: the request ends with the failure fragment, and
\* device_configured, wifi_ssid and wifi_pwd are as they were before it.
C13_MalformedBodyFails ==
    (PostUnconfigured /\ pc \in {"return", "done"} /\ ~BeginsWithKey(DecodedText)) =>
        /\ device_configured = stateAtEntry.device_configured
        /\ wifi_ssid = stateAtEntry.wifi_ssid
        /\ wifi_pwd = stateAtEntry.wifi_pwd
        /\ Writes[Len(Writes)].arg = "WIFI_CONNECT_FAIL_RESPONSE"

\* C14: when the decoded body does not begin with the network-name key no
\* cy_wcm_connect_ap call is made for the request.
C14_MalformedBodyNeverJoins ==
    (PostUnconfigured /\ ~BeginsWithKey(DecodedText)) => Joins = <<>>

\* C15: extracting a network name or secret longer than its array never
\* stores a byte at an index at or beyond the capacity of wifi_ssid or wifi_pwd.
C15_NoWritePastCredentialArrays ==
    (PostUnconfigured /\ AfterExtraction /\ IsForm(DecodedText)
       /\ (\/ Len(FormName(DecodedText)) > WIFI_SSID_LEN
           \/ Len(FormSecret(DecodedText)) > WIFI_PWD_LEN)) =>
        fault \cap {"write_past_wifi_ssid", "write_past_wifi_pwd"} = {}

\* C16: when the body begins with the network-name key but is not a complete
\* SSID=<n>&PASS=<s> form, wifi_ssid and wifi_pwd after the request equal
\* their values before it.
C16_PartialBodyLeavesCredentials ==
    (PostUnconfigured /\ AfterExtraction
       /\ BeginsWithKey(DecodedText) /\ ~IsForm(DecodedText)) =>
        /\ wifi_ssid = stateAtEntry.wifi_ssid
        /\ wifi_pwd = stateAtEntry.wifi_pwd

\* ------------------------------------------------------------------------
\* url_decode against the decoding the spec describes
\* ------------------------------------------------------------------------
\* The source string of the call, and what the call left in buffer up to the
\* first zero byte.
DecodeSource == SubSeq(request.data, 1, request.data_length)
DecodeDone == pc = "url_decode_done"
DecodeOutput == SubSeq(buffer, 1, FirstAt(buffer, 1, NULL_CHARACTER_ASCII_VALUE) - 1)

HexDigits == (48..57) \cup (65..70) \cup (97..102)
HexValue(c) == IF c \in 48..57 THEN c - 48
               ELSE IF c \in 65..70 THEN c - 65 + 10
               ELSE c - 97 + 10

IsEscapeAt(x, i) ==
    /\ x[i] = 37
    /\ i + 2 <= Len(x)
    /\ x[i + 1] \in HexDigits
    /\ x[i + 2] \in HexDigits

\* Form decoding of x from position i: %XX is the byte XX, '+' is a space,
\* any other byte is itself.
RECURSIVE FormDecode(_, _)
FormDecode(x, i) ==
    IF i > Len(x) THEN <<>>
    ELSE IF IsEscapeAt(x, i)
         THEN <<16 * HexValue(x[i + 1]) + HexValue(x[i + 2])>> \o FormDecode(x, i + 3)
         ELSE IF x[i] = 43 THEN <<32>> \o FormDecode(x, i + 1)
              ELSE <<x[i]>> \o FormDecode(x, i + 1)

\* Positions of x that begin an escape, read from the left.
RECURSIVE EscapeStarts(_, _)
EscapeStarts(x, i) ==
    IF i > Len(x) THEN {}
    ELSE IF IsEscapeAt(x, i) THEN {i} \cup EscapeStarts(x, i + 3)
         ELSE EscapeStarts(x, i + 1)

SafeAscii(x) == \A i \in 1..Len(x) : x[i] < 128
\* Every '%' of x opens an escape of two hex digits.
WellEscaped(x) == \A i \in 1..Len(x) : x[i] = 37 => i \in EscapeStarts(x, 1)
\* Some '%' of x does not.
HasBadEscape(x) == ~WellEscaped(x)
HighAt(x) == {i \in 1..Len(x) : x[i] >= 128}
FirstHigh(x) == CHOOSE i \in HighAt(x) : \A j \in HighAt(x) : i <= j

\* C17: for a source of safe-ASCII bytes in which every '%' is followed by two
\* hex digits, url_decode stores exactly the form decoding of the source,
\* followed by the terminator.
C17_DecodesWellFormedInput ==
    (DecodeDone /\ SafeAscii(DecodeSource) /\ WellEscaped(DecodeSource)) =>
        SubSeq(buffer, 1, Len(FormDecode(DecodeSource, 1)) + 1)
            = Append(FormDecode(DecodeSource, 1), NULL_CHARACTER_ASCII_VALUE)

\* "x%2a" decodes to "x*"; "+%2F" to " /".
C17_Witness ==
    /\ DecodeDone
    /\ DecodeSource = <<120, 37, 50, 97>>
    /\ SubSeq(buffer, 1, 3) = <<120, 42, 0>>

C19_PlainTextUnchanged ==
    (DecodeDone /\ \A i \in 1..Len(DecodeSource) : DecodeSource[i] \notin {37, 43}) =>
        DecodeOutput = DecodeSource

\* C19 as amended: for any source x of bytes below
\* VALID_CHARACTER_ASCII_VALUE without '%' and without '+', the decoder
\* output equals x.
C19_SafePlainTextUnchanged ==
    (DecodeDone /\ SafeAscii(DecodeSource)
       /\ \A i \in 1..Len(DecodeSource) : DecodeSource[i] \notin {37, 43}) =>
        /\ DecodeOutput = DecodeSource
        /\ buffer[Len(DecodeSource) + 1] = NULL_CHARACTER_ASCII_VALUE

C19_Witness ==
    /\ DecodeDone
    /\ DecodeSource = <<120, 97, 50, 70>>
    /\ SubSeq(buffer, 1, 5) = <<120, 97, 50, 70, 0>>

\* C20: a source byte at or above VALID_CHARACTER_ASCII_VALUE is copied
\* unchanged and decoding goes on with the bytes after it: the output is the
\* form decoding of the whole source.
C20_HighByteCopiedVerbatim ==
    (DecodeDone /\ HighAt(DecodeSource) # {}) =>
        DecodeOutput = FormDecode(DecodeSource, 1)

\* C20 as amended: the first source byte at or above
\* VALID_CHARACTER_ASCII_VALUE ends the decoding: the output is the form
\* decoding of the bytes before it, then the terminator; neither that byte nor
\* any byte after it is stored.
C20_HighByteEndsDecoding ==
    (DecodeDone /\ HighAt(DecodeSource) # {}) =>
        LET head == SubSeq(DecodeSource, 1, FirstHigh(DecodeSource) - 1)
        IN  buffer = StoreInto(Zeros(BUFFER_LENGTH),
                               Append(FormDecode(head, 1), NULL_CHARACTER_ASCII_VALUE))

C20_Witness ==
    /\ DecodeDone
    /\ DecodeSource = <<97, 200, 120>>
    /\ buffer = StoreInto(Zeros(BUFFER_LENGTH), <<97, 0>>)

\* ------------------------------------------------------------------------
\* Claims about the bounds of the decoder and of the extractor
\* ------------------------------------------------------------------------

\* C21: url_decode never stores more bytes, terminator included, than its
\* destination buffer has elements: for a source whose decoded form does not
\* fit, nothing is stored beyond the capacity.
C21_DecodeStaysInBuffer ==
    DecodeDone => "write_past_buffer" \notin fault

\* ------------------------------------------------------------------------
\* Claims about the responses of the handler
\* ------------------------------------------------------------------------

\* C22: every GET or POST invocation returns to its caller having written at
\* least one payload, whatever the body; a POST handled while Unconfigured
\* whose body cannot be decoded and extracted as SSID=<n>&PASS=<s> ends with
\* the failure fragment and never leaves the handler without returning.
C22_AlwaysAnswers ==
    /\ pc # "hang"
    /\ (Returned /\ (IsGet \/ IsPost)) => Len(Writes) >= 1
    /\ (Returned /\ PostUnconfigured /\ ~IsForm(DecodedText)) =>
          Writes[Len(Writes)].arg = "WIFI_CONNECT_FAIL_RESPONSE"

\* C23: when a response write of the invocation fails, the acknowledgement
\* of a POST included, the handler returns HTTP_REQUEST_HANDLE_ERROR, and no
\* later write of the invocation sends the payload of the failed write again.
C23_FailedWriteReturnsError ==
    Returned =>
        /\ (\E i \in 1..Len(Writes) : ~Writes[i].ok) =>
               status = "HTTP_REQUEST_HANDLE_ERROR"
        /\ \A i, j \in 1..Len(Writes) :
               (i < j /\ ~Writes[i].ok) => Writes[j].arg # Writes[i].arg

\* C24: every GET handled while Configured, whatever came before it (another
\* GET included), writes the device-status page once and nothing else, calls
\* no network control, and leaves device_configured, wifi_ssid, wifi_pwd,
\* buffer and the association as they were when it began.
C24_ConfiguredGetIsPure ==
    (InInvocation /\ IsGet /\ stateAtEntry.device_configured) =>
        /\ Globals = stateAtEntry
        /\ NetworkCalls = <<>>
        /\ Len(trace) <= 1
        /\ \A i \in 1..Len(trace) :
              IsWrite(trace[i]) /\ trace[i].arg = "SOFTAP_DEVICE_DATA"
        /\ pc \in {"return", "done"} => Len(trace) = 1

\* A GET that returned while credentials of an earlier POST are stored and
\* the station is associated.
C24_Witness ==
    /\ Returned /\ IsGet /\ stateAtEntry.device_configured
    /\ wifi_ssid = <<97, 98, 0, 0>> \o Zeros(WIFI_SSID_LEN - 4)
    /\ associated
    /\ Globals = stateAtEntry
    /\ Len(Writes) = 1 /\ Writes[1].arg = "SOFTAP_DEVICE_DATA"

\* ------------------------------------------------------------------------
\* Claims about server_task
\* ------------------------------------------------------------------------
BringUpSteps ==
    <<"cy_wcm_init", "cy_wcm_start_ap", "cy_wcm_get_ip_addr", "cy_wcm_get_ip_addr",
      "cy_http_server_network_init", "cy_http_server_create",
      "cy_http_server_register_resource", "cy_http_server_start">>

\* cy_http_server_start has returned success.
Started ==
    \E i \in 1..Len(trace) : trace[i].op = "cy_http_server_start" /\ trace[i].ok

\* C25: cy_http_server_start starts the server only after Wi-Fi initialisation,
\* SoftAP start, HTTP network initialisation, server creation and handler
\* registration were made in this order and each returned success; the
\* server is running only when every bring-up step returned success, and the
\* handler is entered only from a running server.
C25_StartsOnlyAfterCleanBringUp ==
    /\ [](Started =>
            /\ Len(trace) >= Len(BringUpSteps)
            /\ \A i \in 1..Len(BringUpSteps) : trace[i].op = BringUpSteps[i]
            /\ \A i \in 1..(Len(BringUpSteps) - 1) : trace[i].ok)
    /\ [](pc = "idle" =>
            /\ Started
            /\ \A i \in 1..Len(BringUpSteps) : trace[i].ok)
    /\ [][pc' = "switch" => pc \in {"idle", "done"}]_vars

\* ------------------------------------------------------------------------
\* Claims about device_configured
\* ------------------------------------------------------------------------

\* C26: the handler changes device_configured only from false to true, and
\* only in an invocation whose join succeeded: no step of the handler clears
\* it, and a GET, a POST handled while Configured, a POST whose joins all
\* failed and an unsupported method leave it as it was when they began.
C26_OnlyJoinedPostConfigures ==
    /\ [](InInvocation =>
            (device_configured # stateAtEntry.device_configured =>
                /\ device_configured
                /\ StaReturned
                /\ SomeJoinSucceeded))
    /\ [][(pc' # "idle" /\ device_configured' # device_configured) =>
            (~device_configured /\ pc = "sta_return"
               /\ sta_result = "CY_RSLT_SUCCESS")]_vars

\* A POST handled while Configured has returned after an earlier POST whose
\* joins all failed, the flag being what it was when the POST began.
C26_Witness ==
    /\ Returned /\ PostConfigured /\ everFailed
    /\ device_configured = stateAtEntry.device_configured
    /\ device_configured

\* ------------------------------------------------------------------------
\* Claims about the bounds of the scans
\* ------------------------------------------------------------------------

\* C27: for every body, the scans of wifi_extract_credentials read buffer
\* only at positions before the end of the decoded text, never leave buffer,
\* and the extraction comes to an end.
C27_ScansStayInDecodedText ==
    (PostUnconfigured /\ AfterExtraction) =>
        /\ \A p \in ScannedPositions(buffer, request.data_length) :
              p <= Len(DecodedText)
        /\ "read_past_buffer" \notin fault
        /\ pc # "hang"

\* C28: for a body of declared length L, url_decode reads no source byte at
\* an index at or beyond L, the two bytes it looks at after a '%' included.
C28_DecodeReadsWithinLength ==
    (DecodeDone /\ request.data_length > 0) =>
        \A p \in ReadsFrom(request.data, 1, {}) : p <= request.data_length

\* ------------------------------------------------------------------------
\* Claims about the course of one connection attempt
\* ------------------------------------------------------------------------
\* The join calls of the trace before position w.
JoinsBefore(w) == SelectSeq(SubSeq(trace, 1, w - 1), IsJoin)

\* C29: from the first cy_wcm_connect_ap call of a POST on, the connection
\* loop runs until a call succeeds or MAX_WIFI_RETRY_COUNT calls were made,
\* and no payload is written before that: a write that follows a connect
\* call follows a completed loop, and between the first connect call and
\* that write there are only connect calls and retry delays.
C29_NoWriteDuringAttempt ==
    PostUnconfigured =>
        /\ \A w \in 1..Len(trace) :
              (IsWrite(trace[w]) /\ JoinsBefore(w) # <<>>) =>
                  /\ \/ JoinsBefore(w)[Len(JoinsBefore(w))].ok
                     \/ Len(JoinsBefore(w)) = MAX_WIFI_RETRY_COUNT
                  /\ \A k \in 1..(w - 1) :
                        (\E j \in JoinPositions : j <= k) =>
                            IsJoin(trace[k]) \/ IsDelay(trace[k])
                  /\ pc \in {"return", "done"}
        /\ pc \in {"sta_loop", "sta_delay"} =>
              /\ \A j \in JoinPositions : ~trace[j].ok
              /\ Len(Joins) < MAX_WIFI_RETRY_COUNT \/ pc = "sta_delay"

\* The outcome has been written after two failed connect calls and a third
\* that succeeded, the acknowledgement being the only write before them.
C29_Witness ==
    /\ Returned /\ PostUnconfigured
    /\ Len(Joins) = 3 /\ ~Joins[1].ok /\ ~Joins[2].ok /\ Joins[3].ok
    /\ Len(Writes) = 2
    /\ IsWrite(trace[1]) /\ IsWrite(trace[Len(trace)])

\* ------------------------------------------------------------------------
\* Claims about two invocations in flight
\* ------------------------------------------------------------------------
\* The decoded body of the POST thread t handles.
ThreadText(t) == DecodeFrom(request[t].data, 1, <<>>)

\* C30: with two POSTs in flight, the credential a POST hands to
\* cy_wcm_connect_ap is the one extracted from its own body, with no byte
\* decoded or extracted by the other request.
C30_ConcurrentPostsKeepOwnCredential ==
    \A t \in Threads :
        pc[t] \in {"sta_loop", "sta_delay", "sta_return", "done"} =>
            /\ connect_param[t].SSID = Padded(FormName(ThreadText(t)), WIFI_SSID_LEN)
            /\ connect_param[t].password = Padded(FormSecret(ThreadText(t)), WIFI_PWD_LEN)

\* ------------------------------------------------------------------------
\* Claims about the outcome payload and the return code of a POST
\* ------------------------------------------------------------------------
\* The outcome write of the POST has been made.
OutcomeWritten == PostUnconfigured /\ pc \in {"return", "done"}

\* The outcome the last write of the trace reports.
WroteSuccess == Writes[Len(Writes)].arg = "WIFI_CONNECT_SUCCESS_RESPONSE"

\* C32: the bytes of the outcome payload of a POST, the whole of
\* http_wifi_connect_response, depend on the outcome alone: whatever requests
\* came before, they are the text of that outcome followed by zero bytes,
\* with no byte of a response formatted earlier, and the text fits the array.
C32_PayloadDependsOnOutcomeOnly ==
    OutcomeWritten =>
        /\ http_wifi_connect_response
              = Padded(OutcomeText(WroteSuccess), WIFI_CONNECT_RESPONSE_LENGTH)
        /\ "write_past_response" \notin fault

\* ------------------------------------------------------------------------
\* Claims about the number of connection attempts in progress
\* ------------------------------------------------------------------------
\* Thread t is inside start_sta_mode.
InStaMode(t) == pc[t] \in {"sta_loop", "sta_delay"}

C33_AckFirstAndAttemptFollows ==
    PostUnconfigured =>
        /\ \A j \in JoinPositions :
              /\ j > 1
              /\ IsWrite(trace[1])
              /\ trace[1].arg = "WIFI_CONNECT_IN_PROGRESS"
        /\ (OutcomeWritten /\ ~trace[1].ok) =>
              /\ Len(Joins) >= 1
              /\ Len(Writes) = 2
              /\ Writes[2].arg \in {"WIFI_CONNECT_SUCCESS_RESPONSE",
                                     "WIFI_CONNECT_FAIL_RESPONSE"}

\* The acknowledgement failed, a join succeeded and the success fragment was
\* written.
C33_Witness ==
    /\ Returned /\ PostUnconfigured
    /\ ~trace[1].ok /\ trace[1].arg = "WIFI_CONNECT_IN_PROGRESS"
    /\ SomeJoinSucceeded
    /\ Writes[2].arg = "WIFI_CONNECT_SUCCESS_RESPONSE"

FailedJoins == {i \in JoinPositions : ~trace[i].ok}

\* C34: in start_sta_mode a delay of the retry interval follows every failed
\* cy_wcm_connect_ap call, the last one included: the number of delays is
\* the number of failed calls, and when all MAX_WIFI_RETRY_COUNT calls fail
\* the failure fragment is written after MAX_WIFI_RETRY_COUNT delays.
C34_DelayAfterEveryFailure ==
    PostUnconfigured =>
        /\ Len(Delays) = Cardinality(FailedJoins) - (IF pc = "sta_delay" THEN 1 ELSE 0)
        /\ \A i \in FailedJoins :
              IF i = Len(trace) THEN pc = "sta_delay"
              ELSE /\ IsDelay(trace[i + 1])
                   /\ trace[i + 1].arg = "WIFI_CONN_RETRY_INTERVAL_MSEC"
        /\ (OutcomeWritten /\ AllJoinsFailed) =>
              /\ Len(Delays) = MAX_WIFI_RETRY_COUNT
              /\ IsDelay(trace[Len(trace) - 1])
              /\ Writes[Len(Writes)].arg = "WIFI_CONNECT_FAIL_RESPONSE"

\* Every call failed and the failure fragment follows the last delay.
C34_Witness ==
    /\ OutcomeWritten /\ AllJoinsFailed
    /\ Len(Joins) = MAX_WIFI_RETRY_COUNT
    /\ Len(Delays) = MAX_WIFI_RETRY_COUNT
    /\ IsDelay(trace[Len(trace) - 1])

====
